---------------------------- MODULE Spec2Model ----------------------------
(***************************************************************************)
(* Model of the MAFC search / judge control loops:                         *)
(*   Searcher.search and Searcher._maybe_get_next_search (searcher.py),    *)
(*   Judge.judge and Judge.reason (judge.py), Reasoner.reason              *)
(*   (reasoner.py).                                                        *)
(*                                                                         *)
(* A Python str is a sequence of one-character strings.  An Optional       *)
(* value is a sequence of length 0 (None) or 1 (the value).  The language  *)
(* model and the search backend are external: every call returns one       *)
(* member of a finite set of answers, chosen nondeterministically.         *)
(***************************************************************************)
EXTENDS Integers, Sequences, FiniteSets, TLC

(***************************************************************************)
(* Bounds of the model.                                                    *)
(***************************************************************************)
MaxSteps == 3

MaxRetries == 2
MaxAttempts == 3
MaxActions == 3

(***************************************************************************)
(* Python values.                                                          *)
(***************************************************************************)
None == << >>

Some(x) == << x >>

EmptyStr == << >>

\* Python truthiness of an Optional[str]: None and '' are falsy.
StrTruthy(o) == o # None /\ o[1] # EmptyStr

\* Python truthiness of an Optional[dataclass instance]: an instance of a
\* dataclass that defines neither __bool__ nor __len__ is always truthy.
ObjTruthy(o) == o # None

UpperLetters == << "A","B","C","D","E","F","G","H","I","J","K","L","M",
                   "N","O","P","Q","R","S","T","U","V","W","X","Y","Z" >>

LowerLetters == << "a","b","c","d","e","f","g","h","i","j","k","l","m",
                   "n","o","p","q","r","s","t","u","v","w","x","y","z" >>

Digits == { "0","1","2","3","4","5","6","7","8","9" }

Range(s) == { s[i] : i \in DOMAIN s }

\* The characters of a string are those of Latin-1 (code points 0 to 255),
\* classified as Python classifies them.

\* the cased letters above code point 127: U+00C0 to U+00DE without U+00D7
AccentedUpper == << "À","Á","Â","Ã","Ä","Å","Æ","Ç","È","É","Ê","Ë","Ì","Í","Î",
                   "Ï","Ð","Ñ","Ò","Ó","Ô","Õ","Ö","Ø","Ù","Ú","Û","Ü","Ý","Þ" >>

\* their str.lower(): U+00E0 to U+00FE without U+00F7
AccentedLower == << "à","á","â","ã","ä","å","æ","ç","è","é","ê","ë","ì","í","î",
                   "ï","ð","ñ","ò","ó","ô","õ","ö","ø","ù","ú","û","ü","ý","þ" >>

\* the other characters above code point 127 that \w matches: U+00AA,
\* U+00B2, U+00B3, U+00B5, U+00B9, U+00BA, U+00BC to U+00BE, U+00DF, U+00FF
OtherWordChars == { "ª", "²", "³", "µ", "¹", "º", "¼", "½", "¾", "ß", "ÿ" }

\* the characters \s matches and str.strip() removes: space, U+0009 to
\* U+000D, U+001C to U+001F, U+0085, U+00A0
SpaceChars == { "\t", "\n", "", "\f", "\r", "", "", "", "", " ", "", " " }

\* the upper-case letters and, at the same position, their str.lower()
CasedUpper == UpperLetters \o AccentedUpper

CasedLower == LowerLetters \o AccentedLower

\* str.lower() of the upper-case letters
LowerOf ==
    [ c \in Range(CasedUpper) |-> CasedLower[CHOOSE i \in DOMAIN CasedUpper : CasedUpper[i] = c] ]

\* str.lower() of one character
LowerChar(c) == IF c \in DOMAIN LowerOf THEN LowerOf[c] ELSE c

\* str.lower()
Lower(s) == [ i \in DOMAIN s |-> LowerChar(s[i]) ]

\* str.startswith(p)
StartsWith(s, p) == Len(s) >= Len(p) /\ SubSeq(s, 1, Len(p)) = p

\* str.replace(c, '') for a one-character c
RemoveChar(s, c) == SelectSeq(s, LAMBDA x : x # c)

\* p occurs in s at index i
OccursAt(s, p, i) == i >= 1 /\ i + Len(p) - 1 <= Len(s) /\ SubSeq(s, i, i + Len(p) - 1) = p

\* `p in s` for strings
Contains(s, p) == \E i \in 1..(Len(s) + 1) : OccursAt(s, p, i)

\* index of the first occurrence of p in s at or after index from, 0 if none
Find(s, p, from) ==
    IF \E i \in from..(Len(s) + 1) : OccursAt(s, p, i)
    THEN CHOOSE i \in from..(Len(s) + 1) :
            OccursAt(s, p, i) /\ \A j \in from..(i - 1) : ~OccursAt(s, p, j)
    ELSE 0

\* c is matched by \s
IsSpace(c) == c \in SpaceChars

\* the characters \w matches
WordChars ==
    Range(UpperLetters) \cup Range(LowerLetters) \cup Digits \cup { "_" }
        \cup Range(AccentedUpper) \cup Range(AccentedLower) \cup OtherWordChars

\* c is matched by \w
IsWord(c) == c \in WordChars

\* str.strip()
Strip(s) ==
    IF \A i \in DOMAIN s : IsSpace(s[i]) THEN EmptyStr
    ELSE LET a == CHOOSE i \in DOMAIN s : ~IsSpace(s[i]) /\ \A j \in 1..(i - 1) : IsSpace(s[j])
             b == CHOOSE i \in DOMAIN s : ~IsSpace(s[i]) /\ \A j \in (i + 1)..Len(s) : IsSpace(s[j])
         IN  SubSeq(s, a, b)

\* re.sub(r'[^\w\s]', '', s)
StripPunct(s) == SelectSeq(s, LAMBDA c : IsWord(c) \/ IsSpace(c))

\* x in list
InList(x, l) == \E i \in DOMAIN l : l[i] = x


(***************************************************************************)
(* Helpers of common/utils.py used by the searcher.                        *)
(***************************************************************************)
\* The backtick character (a TLA+ string literal cannot hold one).
Backtick == "<backtick>"

Fence == << Backtick, Backtick, Backtick >>

\* utils.extract_first_code_block(s, ignore_language=True): the stripped text
\* of the first fenced span, the empty string when there is none.
ExtractFirstCodeBlock(s) ==
    LET a == Find(s, Fence, 1)
        b == IF a = 0 THEN 0 ELSE Find(s, Fence, a + Len(Fence))
    IN  IF b = 0 THEN EmptyStr ELSE Strip(SubSeq(s, a + Len(Fence), b - 1))

ICannot == << "I", " ", "c", "a", "n", "n", "o", "t" >>

ImSorry == << "I", "'", "m", " ", "s", "o", "r", "r", "y" >>

(***************************************************************************)
(* The strings of the model: the claim, and what the language model and    *)
(* the search backend may answer.                                          *)
(***************************************************************************)
SummaryThreshold == 728

Claims == { << "s", "k", "y" >> }

Q1 == << "q", "1" >>

Q2 == << "q", "2" >>

Q3 == << "q", "3" >>

R1 == << "r", "1" >>

S1 == << "s", "1" >>

\* a backend result of exactly SummaryThreshold characters
AtThreshold == [ i \in 1..SummaryThreshold |-> "y" ]

\* a backend result one character longer than SummaryThreshold
OverThreshold == [ i \in 1..(SummaryThreshold + 1) |-> "x" ]

\* answers of model.generate to the search prompt
ProposalResponses ==
    { Fence \o Q1 \o Fence,
      << "T", "r", "y", " " >> \o Fence \o << "\"" >> \o Q2 \o << "\"", " " >> \o Fence,
      ICannot \o << ".", " ", "N", "o", "." >>,
      ImSorry,
      << "u", "s", "e", " " >> \o Q1,
      EmptyStr }

\* answers of model.generate to the query-extraction instruction
ExtractionResponses == { Q1, << "q", "\n", "2" >> }

\* answers of model.generate to the duplicate-query mixer
MixerResponses == { Q1, Q3 }

\* what the search backend returns
BackendResults == { EmptyStr, R1, AtThreshold, OverThreshold }

\* answers of model.generate to the summarize prompt
SummaryResponses == { EmptyStr, S1, R1 }

Sufficient == << "s", "u", "f", "f", "i", "c", "i", "e", "n", "t" >>

\* answers of model.generate to the sufficiency question
SufficiencyResponses ==
    { Sufficient,
      << "S" >> \o Tail(Sufficient),
      << "i", "n" >> \o Sufficient,
      Sufficient \o << "." >>,
      EmptyStr }

(***************************************************************************)
(* common/label.py and the helpers of common/utils.py used by the judge.   *)
(***************************************************************************)
Labels == { "SUPPORTED", "REFUTED", "NOT_ENOUGH_INFO", "REFUSED_TO_ANSWER" }

\* the order of iteration over the enumeration
LabelList == << "SUPPORTED", "REFUTED", "NOT_ENOUGH_INFO", "REFUSED_TO_ANSWER" >>

\* label.value: lower-case words; judge.py builds Label('refused') on a
\* guardrail hit (lines 101, 119), so that is REFUSED_TO_ANSWER's value.
LabelValue(l) ==
    CASE l = "SUPPORTED" -> << "s", "u", "p", "p", "o", "r", "t", "e", "d" >>
      [] l = "REFUTED" -> << "r", "e", "f", "u", "t", "e", "d" >>
      [] l = "NOT_ENOUGH_INFO" ->
            << "n", "o", "t", " ", "e", "n", "o", "u", "g", "h", " ",
               "i", "n", "f", "o", "r", "m", "a", "t", "i", "o", "n" >>
      [] l = "REFUSED_TO_ANSWER" -> << "r", "e", "f", "u", "s", "e", "d" >>

\* Label(value): the member with this value, ValueError when there is none
LabelOf(v) ==
    IF \E l \in Labels : LabelValue(l) = v
    THEN CHOOSE l \in Labels : LabelValue(l) = v
    ELSE "ValueError"

\* utils.is_guardrail_hit(response)
IsGuardrailHit(resp) == StartsWith(resp, ICannot) \/ StartsWith(resp, ImSorry)

\* the indices of c in s, in increasing order
IndicesOf(s, c) ==
    LET idx == [ i \in DOMAIN s |-> i ]
    IN  SelectSeq(idx, LAMBDA i : s[i] = c)

\* utils.extract_last_code_span(s): the text of the last `...` span, the
\* empty string when there is none.
ExtractLastCodeSpan(s) ==
    LET ticks == IndicesOf(s, Backtick)
        k == 2 * (Len(ticks) \div 2)
    IN  IF k = 0 THEN EmptyStr ELSE SubSeq(s, ticks[k - 1] + 1, ticks[k] - 1)

\* utils.extract_first_square_brackets(s): the text between the first [ and
\* the first ] after it, the empty string when there is none.
ExtractFirstSquareBrackets(s) ==
    LET a == Find(s, << "[" >>, 1)
        b == IF a = 0 THEN 0 ELSE Find(s, << "]" >>, a + 1)
    IN  IF b = 0 THEN EmptyStr ELSE SubSeq(s, a + 1, b - 1)

(***************************************************************************)
(* State of one search session (Searcher.search).                          *)
(***************************************************************************)
VARIABLES
    claim,           \* search(claim, ...)
    limit_search,    \* search(..., limit_search, ...)
    summarize,       \* search(..., summarize, ...)
    max_steps,       \* self.max_steps
    max_retries,     \* self.max_retries
    search_results,  \* the list search() builds and returns
    next_search,     \* Optional[SearchResult] of the current iteration
    num_tries,       \* tries of the current iteration
    pc,              \* where the session stands
    model_response,  \* local of _maybe_get_next_search
    query,           \* local of _maybe_get_next_search
    result,          \* local of _maybe_get_next_search (Optional[str])
    model_decision,  \* local of sufficient_knowledge: the last answer
    steps,           \* iterations of the for loop whose search has run
    api_result,      \* what _call_api returned in the current iteration
    n_api,           \* calls of _call_api in the session
    n_sufficient,    \* calls of sufficient_knowledge in the session
    step_generate,   \* calls of model.generate in the current iteration
    step_mixer,      \* mixer calls in the current iteration
    raw_response,    \* what model.generate answered to the search prompt
    proposed         \* the queries extracted in the session so far

(***************************************************************************)
(* State of one decision (Judge.judge, Judge.reason, Reasoner.reason); its *)
(* evidence is search_results.                                             *)
(***************************************************************************)
VARIABLES
    mode,             \* "search", or the method that decides
    classes,          \* Judge.classes
    d_tries,          \* n_retries of judge(), num_tries of reason()
    final_answer,     \* Optional[FinalAnswer] of reason()
    latest_reasoning, \* Judge.latest_reasoning (Optional[str])
    verdict,          \* Optional[Label]: the label returned
    justification,    \* the text returned with the label
    raised,           \* the exception that left the method, "" when none
    n_main,           \* generations of the judge / reason prompt
    n_corrective,     \* generations of the corrective prompt
    n_refused,        \* attempts that ended refused
    adjusted_response \* local of maybe_get_final_answer when it returns (Optional[str])

(***************************************************************************)
(* State of one call of Model.generate.                                    *)
(***************************************************************************)
VARIABLES
    open_source,     \* Model.open_source
    max_attempts,    \* parameter of generate()
    response,        \* local of generate()
    num_attempts,    \* local of generate()
    worker,          \* the thread of the executor: "none", "running", "finished"
    returned,        \* Optional[str]: what generate() returned
    last_error,      \* the exception the last attempt caught, "" when none
    n_submitted,     \* calls of executor.submit
    n_caught         \* attempts that ended in a caught exception

(***************************************************************************)
(* Sessions that run judge() on one shared Judge object; the object's      *)
(* state is latest_reasoning, classes and max_retries.                     *)
(***************************************************************************)
VARIABLES
    sessions         \* per session: the locals of judge() and of its caller

(***************************************************************************)
(* State of one call of Actor.perform.                                     *)
(***************************************************************************)
VARIABLES
    actions,         \* parameter of perform(): the types of the actions
    tools,           \* Actor.tools: the action types each tool declares
    all_evidence,    \* local of perform()
    next_action,     \* position of the for loop in actions
    performed        \* Optional[list[Evidence]]: what perform() returned

actor_vars == << actions, tools, all_evidence, next_action, performed >>

(***************************************************************************)
(* State of an extraction applied twice: to a token, and to the value of   *)
(* the label it gave.                                                      *)
(***************************************************************************)
VARIABLES
    label_values,    \* the enumeration Label: the value of each member
    token,           \* the text the model put in the code span or the brackets
    first_label,     \* what the extraction gave for token
    second_label     \* what it gave for the value of first_label

extract_vars == << label_values, token, first_label, second_label >>

gen_vars == << open_source, max_attempts, response, num_attempts, worker, returned,
              last_error, n_submitted, n_caught >>

decide_vars_but_raised == << mode, classes, d_tries, final_answer, latest_reasoning,
                             verdict, justification, n_main, n_corrective, n_refused,
                             adjusted_response >>

decide_vars == << mode, classes, d_tries, final_answer, latest_reasoning, verdict,
                  justification, raised, n_main, n_corrective, n_refused,
                  adjusted_response >>

search_locals == << next_search, num_tries, model_response, query, result, model_decision,
                    steps, api_result, n_api, n_sufficient, step_generate, step_mixer,
                    raw_response, proposed >>

vars == << claim, limit_search, summarize, max_steps, max_retries, search_results,
           next_search, num_tries, pc, model_response, query, result, model_decision,
           steps, api_result, n_api, n_sufficient, step_generate, step_mixer,
           raw_response, proposed,
           mode, classes, d_tries, final_answer, latest_reasoning, verdict,
           justification, raised, n_main, n_corrective, n_refused,
           adjusted_response,
           open_source, max_attempts, response, num_attempts, worker, returned,
           last_error, n_submitted, n_caught, sessions,
           actions, tools, all_evidence, next_action, performed,
           label_values, token, first_label, second_label >>

config == << claim, limit_search, summarize, max_steps, max_retries >>

\* past_results = [s.result for s in past_searches if s.result is not None]
PastResults(past_searches) ==
    LET present == SelectSeq(past_searches, LAMBDA s : s.result # None)
    IN  [ i \in DOMAIN present |-> present[i].result[1] ]

\* past_queries = [s.query for s in past_searches]
PastQueries(past_searches) == [ i \in DOMAIN past_searches |-> past_searches[i].query ]

\* LoopContinues that ends one iteration early
LoopContinues_OneShort(done) == done < max_steps - 1

\* LoopContinues with the bound off by one
LoopContinues_OffByOne(done) == done <= max_steps

\* the for loop of search(): another iteration after `done` of them
LoopContinues(done) == done < max_steps

\* RetrySearch on the result instead of the object
RetrySearch_OnResult(ns, tries) ==
    (~ObjTruthy(ns) \/ ~StrTruthy(ns[1].result)) /\ tries <= max_retries

\* RetrySearch that tries again whatever _maybe_get_next_search returned
RetrySearch_Always(ns, tries) == tries <= max_retries

\* the inner while loop of search(): try _maybe_get_next_search again
RetrySearch(ns, tries) == ~ObjTruthy(ns) /\ tries <= max_retries

\* AppendSearch that puts the new entry first
AppendSearch_Prepend(results, ns) ==
    IF ns = None \/ ~StrTruthy(ns[1].result) THEN results ELSE << ns[1] >> \o results

\* AppendSearch that only tests whether the result is present
AppendSearch_IfPresent(results, ns) ==
    IF ns = None \/ ns[1].result = None THEN results ELSE Append(results, ns[1])

\* AppendSearch without the test of the result
AppendSearch_Always(results, ns) ==
    IF ns = None THEN results ELSE Append(results, ns[1])

\* if next_search is None or not next_search.result: ... else: append
AppendSearch(results, ns) ==
    IF ns = None \/ ~StrTruthy(ns[1].result) THEN results ELSE Append(results, ns[1])

\* GuardedResponse without the guardrail test
GuardedResponse_NoGuard(resp, c) == resp

\* the response after the guardrail test of _maybe_get_next_search
GuardedResponse(resp, c) ==
    IF StartsWith(resp, ICannot) \/ StartsWith(resp, ImSorry)
    THEN << "[" >> \o c \o << "]" >>
    ELSE resp

\* if query in past_queries: the mixer is asked
IsDuplicateQuery(q, past_searches) == InList(q, PastQueries(past_searches))

\* DedupResult without the comparison
DedupResult_Never(res, past_searches) == Some(res)

\* if result in past_results: result = None
DedupResult(res, past_searches) ==
    IF InList(res, PastResults(past_searches)) THEN None ELSE Some(res)

\* NeedsSummary with the threshold included
NeedsSummary_AtThreshold(sum, res) ==
    sum /\ res # None /\ Len(res[1]) >= SummaryThreshold

\* if summarize and result is not None and len(result) > 728
NeedsSummary(sum, res) == sum /\ res # None /\ Len(res[1]) > SummaryThreshold

\* IsSufficient without lower()
IsSufficient_CaseSensitive(decision) == decision = Sufficient

\* model_decision.lower() == "sufficient"
IsSufficient(decision) == Lower(decision) = Sufficient


\* the sessions that share the Judge
Sessions == { "a", "b" }

\* a session before its call of judge(), and one that is not modelled
SessionStart(at) ==
    [ pc |-> at, n_retries |-> 0, verdict |-> None, own |-> None, reported |-> None ]

SessionsIdle == [ s \in Sessions |-> SessionStart("idle") ]

\* no extraction is applied on its own; Label has the values of LabelValue
ExtractIdle ==
    /\ label_values = [ l \in Labels |-> LabelValue(l) ]
    /\ token = EmptyStr
    /\ first_label = ""
    /\ second_label = ""

\* no call of Actor.perform is modelled
ActorIdle ==
    /\ actions = << >>
    /\ tools = << >>
    /\ all_evidence = << >>
    /\ next_action = 0
    /\ performed = None

\* no call of Model.generate is modelled step by step
GenIdle ==
    /\ open_source = FALSE
    /\ max_attempts = 0
    /\ response = EmptyStr
    /\ num_attempts = 0
    /\ worker = "none"
    /\ returned = None
    /\ last_error = ""
    /\ n_submitted = 0
    /\ n_caught = 0

(***************************************************************************)
(* Searcher.search: the session.                                           *)
(***************************************************************************)
SearchInit ==
    /\ claim \in Claims
    /\ limit_search \in BOOLEAN
    /\ summarize \in BOOLEAN
    /\ max_steps \in 0..MaxSteps
    /\ max_retries \in { 0, MaxRetries }
    /\ search_results = << >>
    /\ next_search = None
    /\ num_tries = 0
    /\ pc = "loop"
    /\ model_response = EmptyStr
    /\ query = EmptyStr
    /\ result = None
    /\ model_decision = EmptyStr
    /\ steps = 0
    /\ api_result = None
    /\ n_api = 0
    /\ n_sufficient = 0
    /\ step_generate = 0
    /\ step_mixer = 0
    /\ raw_response = EmptyStr
    /\ proposed = { }
    /\ mode = "search"
    /\ classes = << >>
    /\ d_tries = 0
    /\ final_answer = None
    /\ latest_reasoning = None
    /\ verdict = None
    /\ justification = EmptyStr
    /\ raised = ""
    /\ n_main = 0
    /\ n_corrective = 0
    /\ n_refused = 0
    /\ adjusted_response = None
    /\ GenIdle
    /\ sessions = SessionsIdle
    /\ ActorIdle
    /\ ExtractIdle

\* for _ in range(self.max_steps): next_search, num_tries = None, 0
\* and, when the range is used up, return search_results.
LoopHead ==
    /\ pc = "loop"
    /\ IF LoopContinues(steps)
       THEN /\ pc' = "propose"
            /\ next_search' = None
            /\ num_tries' = 0
            /\ api_result' = None
            /\ model_decision' = EmptyStr
            /\ step_generate' = 0
            /\ step_mixer' = 0
       ELSE /\ pc' = "done"
            /\ UNCHANGED << next_search, num_tries, api_result, model_decision,
                            step_generate, step_mixer >>
    /\ UNCHANGED << decide_vars, gen_vars, sessions, actor_vars, extract_vars >>
    /\ UNCHANGED << config, search_results, model_response, query, result,
                    steps, n_api, n_sufficient, raw_response, proposed >>

\* The query is known (lines 99-101): test it against past_queries (line 104).
GotQuery(q) ==
    /\ query' = q
    /\ proposed' = proposed \cup { q }
    /\ pc' = IF IsDuplicateQuery(q, search_results) THEN "mixer" ELSE "api"

\* _maybe_get_next_search, lines 81-101: the search prompt is generated and
\* the query taken from the first code block of the response.
Propose ==
    /\ pc = "propose"
    /\ \E resp \in ProposalResponses :
          LET guarded == GuardedResponse(RemoveChar(resp, "\""), claim)
              q == ExtractFirstCodeBlock(guarded)
          IN  /\ raw_response' = resp
              /\ model_response' = guarded
              /\ IF q = EmptyStr
                 THEN pc' = "extract" /\ query' = q /\ UNCHANGED proposed
                 ELSE GotQuery(q)
    /\ step_generate' = step_generate + 1
    /\ UNCHANGED << decide_vars, gen_vars, sessions, actor_vars, extract_vars >>
    /\ UNCHANGED << config, search_results, next_search, num_tries, result,
                    model_decision, steps, api_result, n_api, n_sufficient, step_mixer >>

\* post_process_query: the model extracts the query from its own response.
PostProcessQuery ==
    /\ pc = "extract"
    /\ \E resp \in ExtractionResponses : GotQuery(RemoveChar(resp, "\n"))
    /\ step_generate' = step_generate + 1
    /\ UNCHANGED << decide_vars, gen_vars, sessions, actor_vars, extract_vars >>
    /\ UNCHANGED << config, search_results, next_search, num_tries, model_response,
                    result, model_decision, steps, api_result, n_api, n_sufficient,
                    step_mixer, raw_response >>

\* lines 104-111: the duplicate query is replaced by the mixer's answer.
Mixer ==
    /\ pc = "mixer"
    /\ \E resp \in MixerResponses : query' = resp
    /\ pc' = "api"
    /\ step_generate' = step_generate + 1
    /\ step_mixer' = step_mixer + 1
    /\ UNCHANGED << decide_vars, gen_vars, sessions, actor_vars, extract_vars >>
    /\ UNCHANGED << config, search_results, next_search, num_tries, model_response,
                    result, model_decision, steps, api_result, n_api, n_sufficient,
                    raw_response, proposed >>

\* _maybe_get_next_search returns SearchResult(query, result) to the while
\* loop of search() (lines 56-59), which is left unless RetrySearch; then
\* lines 61-66 append the result or log the failure, and line 68 follows.
Return(q, r) ==
    LET ns == Some([ query |-> q, result |-> r ])
        tries == num_tries + 1
    IN  /\ next_search' = ns
        /\ num_tries' = tries
        /\ model_response' = EmptyStr
        /\ raw_response' = EmptyStr
        /\ query' = EmptyStr
        /\ result' = None
        /\ IF RetrySearch(ns, tries)
           THEN /\ pc' = "propose"
                /\ UNCHANGED << search_results, steps >>
           ELSE /\ search_results' = AppendSearch(search_results, ns)
                /\ steps' = steps + 1
                /\ pc' = IF limit_search THEN "sufficient" ELSE "loop"

\* lines 113-125: the backend is called and its result tested against the
\* stored results; a long result goes on to be summarized.
CallApi ==
    /\ pc = "api"
    /\ \E res \in BackendResults :
          LET r == DedupResult(res, search_results)
          IN  /\ api_result' = Some(res)
              /\ IF NeedsSummary(summarize, r)
                 THEN /\ result' = r
                      /\ pc' = "summarize"
                      /\ UNCHANGED << search_results, next_search, num_tries,
                                      model_response, raw_response, query, steps >>
                 ELSE Return(query, r)
    /\ n_api' = n_api + 1
    /\ UNCHANGED << decide_vars, gen_vars, sessions, actor_vars, extract_vars >>
    /\ UNCHANGED << config, model_decision, n_sufficient, step_generate, step_mixer,
                    proposed >>

\* lines 125-136: the result is replaced by the model's summary.
Summarize ==
    /\ pc = "summarize"
    /\ \E resp \in SummaryResponses : Return(query, Some(resp))
    /\ step_generate' = step_generate + 1
    /\ UNCHANGED << decide_vars, gen_vars, sessions, actor_vars, extract_vars >>
    /\ UNCHANGED << config, model_decision, api_result, n_api, n_sufficient, step_mixer,
                    proposed >>

\* line 68: if limit_search and self.sufficient_knowledge(...): break
SufficientKnowledge ==
    /\ pc = "sufficient"
    /\ \E resp \in SufficiencyResponses :
          /\ model_decision' = resp
          /\ pc' = IF IsSufficient(resp) THEN "done" ELSE "loop"
    /\ n_sufficient' = n_sufficient + 1
    /\ step_generate' = step_generate + 1
    /\ UNCHANGED << decide_vars, gen_vars, sessions, actor_vars, extract_vars >>
    /\ UNCHANGED << config, search_results, next_search, num_tries, model_response,
                    query, result, steps, api_result, n_api, step_mixer, raw_response,
                    proposed >>

Next ==
    \/ LoopHead
    \/ Propose
    \/ PostProcessQuery
    \/ Mixer
    \/ CallApi
    \/ Summarize
    \/ SufficientKnowledge

Spec == SearchInit /\ [][Next]_vars


(***************************************************************************)
(* Judge.judge, Judge.reason and Reasoner.reason: the decision.            *)
(***************************************************************************)
Span(s) == << Backtick >> \o s \o << Backtick >>

Bracketed(s) == << "[" >> \o s \o << "]" >>

Maybe == << "m", "a", "y", "b", "e" >>

\* a label value broken by a carriage return
BrokenLabel == << "s", "u", "p", "\r", "p", "o", "r", "t", "e", "d" >>

\* answers of model.generate to the judge prompt
VerdictResponses ==
    { Span(LabelValue("SUPPORTED")),
      Span(<< "R" >> \o Tail(LabelValue("REFUTED")) \o << "." >>),
      Span(LabelValue("NOT_ENOUGH_INFO")),
      Span(LabelValue("REFUTED") \o << ",", " " >> \o LabelValue("SUPPORTED")),
      Span(Maybe),
      Span(BrokenLabel),
      Span(LabelValue("SUPPORTED") \o << "\r" >>),
      Span(<< "É" >> \o LabelValue("REFUTED")),
      ICannot \o << "." >>,
      ICannot \o << ":", " " >> \o Span(LabelValue("SUPPORTED")),
      Maybe,
      EmptyStr }

\* answers of model.generate to the reason prompt
ReasonResponses ==
    { Bracketed(<< "S", "U", "P", "P", "O", "R", "T", "E", "D" >>),
      << "S", "o", " " >> \o Bracketed(LabelValue("REFUTED") \o << "." >>),
      Bracketed(<< "N" >> \o Tail(LabelValue("NOT_ENOUGH_INFO")) \o << "!" >>),
      Bracketed(<< " " >> \o LabelValue("REFUSED_TO_ANSWER")),
      Bracketed(Maybe),
      Bracketed(BrokenLabel),
      Bracketed(LabelValue("REFUTED") \o << "\r" >>),
      ICannot \o << "." >>,
      ICannot \o << ":", " " >> \o Bracketed(LabelValue("SUPPORTED")),
      Maybe,
      EmptyStr }

\* answers of model.generate to the corrective prompt
CorrectiveResponses ==
    { << "S" >> \o Tail(LabelValue("SUPPORTED")), LabelValue("REFUTED") \o << "." >>,
      << "É" >> \o LabelValue("REFUTED"), Maybe, EmptyStr }

\* the evidence a decision may be given: what a search session returns
Evidences == { << >>, << [ query |-> Q1, result |-> Some(R1) ] >> }

\* the candidate classes a Judge may be constructed with
ClassLists == { << "SUPPORTED", "REFUTED", "NOT_ENOUGH_INFO" >>, << "REFUTED", "SUPPORTED" >> }

\* VerdictOfAnswer with the last matching class instead of the first
VerdictOfAnswer_LastMatch(answer, cls) ==
    IF LabelOf(answer) # "ValueError" THEN LabelOf(answer)
    ELSE IF \E i \in DOMAIN cls : Contains(answer, LabelValue(cls[i]))
         THEN cls[CHOOSE i \in DOMAIN cls :
                     /\ Contains(answer, LabelValue(cls[i]))
                     /\ \A j \in (i + 1)..Len(cls) : ~Contains(answer, LabelValue(cls[j]))]
         ELSE "REFUSED_TO_ANSWER"

\* Judge._extract_verdict, lines 70-80: the label of a non-empty answer
VerdictOfAnswer(answer, cls) ==
    IF LabelOf(answer) # "ValueError" THEN LabelOf(answer)
    ELSE IF \E i \in DOMAIN cls : Contains(answer, LabelValue(cls[i]))
         THEN cls[CHOOSE i \in DOMAIN cls :
                     /\ Contains(answer, LabelValue(cls[i]))
                     /\ \A j \in 1..(i - 1) : ~Contains(answer, LabelValue(cls[j]))]
         ELSE "REFUSED_TO_ANSWER"

\* Judge._extract_verdict, lines 63-65: the normalized token of a response
JudgeToken(resp) == Lower(Strip(StripPunct(ExtractLastCodeSpan(resp))))

\* ExtractVerdict whose normalisation drops the white space as well
ExtractVerdict_NoSpaces(resp, cls) ==
    LET answer == RemoveChar(Lower(Strip(StripPunct(ExtractLastCodeSpan(resp)))), " ")
    IN  IF answer = EmptyStr THEN "REFUSED_TO_ANSWER" ELSE VerdictOfAnswer(answer, cls)

\* Judge._extract_verdict
ExtractVerdict(resp, cls) ==
    LET answer == Lower(Strip(StripPunct(ExtractLastCodeSpan(resp))))
    IN  IF answer = EmptyStr THEN "REFUSED_TO_ANSWER" ELSE VerdictOfAnswer(answer, cls)

\* GenerateVerdict without the guardrail test
GenerateVerdict_NoGuard(resp, cls) == ExtractVerdict(resp, cls)

\* Judge._generate_verdict, lines 52-59: the verdict of a response
GenerateVerdict(resp, cls) ==
    IF IsGuardrailHit(resp) THEN "REFUSED_TO_ANSWER" ELSE ExtractVerdict(resp, cls)

\* JudgeStops one retry late
JudgeStops_Late(n) == n > max_retries + 1

\* JudgeStops one retry early
JudgeStops_Early(n) == n >= max_retries

\* Judge.judge, line 43: if n_retries > self.max_retries: break
JudgeStops(n) == n > max_retries

\* Judge.judge: one turn of the while loop, a call of _generate_verdict and
\* the test of its verdict.
JudgeAttempt ==
    /\ pc = "judge"
    /\ \E resp \in VerdictResponses :
          LET v == GenerateVerdict(resp, classes)
          IN  /\ latest_reasoning' = Some(resp)
              /\ verdict' = Some(v)
              /\ IF v = "REFUSED_TO_ANSWER"
                 THEN /\ d_tries' = d_tries + 1
                      /\ n_refused' = n_refused + 1
                      /\ pc' = IF JudgeStops(d_tries + 1) THEN "done" ELSE "judge"
                 ELSE /\ pc' = "done"
                      /\ UNCHANGED << d_tries, n_refused >>
    /\ n_main' = n_main + 1
    /\ UNCHANGED << config, search_results, search_locals, mode, classes, final_answer,
                    justification, raised, n_corrective, adjusted_response, gen_vars,
                    sessions, actor_vars, extract_vars >>

Refused == << "r", "e", "f", "u", "s", "e", "d" >>

\* valid_labels = [label.value.lower() for label in Label]
ValidLabels == [ i \in DOMAIN LabelList |-> Lower(LabelValue(LabelList[i])) ]

\* Judge.maybe_get_final_answer, lines 121-122
BracketAnswer(resp) == Strip(StripPunct(ExtractFirstSquareBrackets(resp)))

\* AnswerIsValid without lower()
AnswerIsValid_CaseSensitive(resp, answer) == resp # EmptyStr /\ InList(answer, ValidLabels)

\* AnswerIsValid that lets an empty answer through
AnswerIsValid_EmptyOk(resp, answer) ==
    answer = EmptyStr \/ (resp # EmptyStr /\ InList(Lower(answer), ValidLabels))

\* Judge.maybe_get_final_answer, line 126
AnswerIsValid(resp, answer) == resp # EmptyStr /\ InList(Lower(answer), ValidLabels)

\* AdjustedAnswer without lower()
AdjustedAnswer_CaseSensitive(resp) ==
    IF InList(resp, ValidLabels) THEN resp ELSE LabelValue("REFUSED_TO_ANSWER")

\* AdjustedAnswer that keeps the case of the corrective answer
AdjustedAnswer_NotLowered(resp) ==
    IF InList(Lower(resp), ValidLabels) THEN resp ELSE LabelValue("REFUSED_TO_ANSWER")

\* Judge.maybe_get_final_answer, lines 132-139: the answer after the
\* corrective prompt
AdjustedAnswer(resp) ==
    IF InList(Lower(resp), ValidLabels) THEN Lower(resp) ELSE LabelValue("REFUSED_TO_ANSWER")

\* the while loop of reason(): another attempt
RetryReason(fa, tries) == ~ObjTruthy(fa) /\ tries <= max_retries

\* an attempt of reason() that ended in a guardrail hit or a parse failure
AttemptRefused(fa) ==
    fa # None /\ Lower(fa[1].answer) \in { Lower(Refused), Lower(LabelValue("REFUSED_TO_ANSWER")) }

\* ReasonReturn that returns no text with the label
ReasonReturn_NoText(fa, tries) ==
    /\ final_answer' = fa
    /\ n_refused' = IF AttemptRefused(fa) THEN n_refused + 1 ELSE n_refused
    /\ model_response' = EmptyStr
    /\ IF RetryReason(fa, tries)
       THEN /\ pc' = "reason"
            /\ UNCHANGED << verdict, justification, raised >>
       ELSE IF fa = None \/ LabelOf(Lower(fa[1].answer)) = "ValueError"
       THEN /\ raised' = "ValueError"
            /\ pc' = "raised"
            /\ UNCHANGED << verdict, justification >>
       ELSE /\ verdict' = Some(LabelOf(Lower(fa[1].answer)))
            /\ justification' = EmptyStr
            /\ pc' = "done"
            /\ UNCHANGED raised

\* Judge.get_latest_reasoning: the text the Judge reports for its last verdict
GetLatestReasoning == latest_reasoning

\* Judge.reason, lines 93-102: maybe_get_final_answer has returned fa in
\* attempt number tries; the loop goes on or reason() returns (or raises,
\* when Label() does).
ReasonReturn(fa, tries) ==
    /\ final_answer' = fa
    /\ n_refused' = IF AttemptRefused(fa) THEN n_refused + 1 ELSE n_refused
    /\ model_response' = EmptyStr
    /\ IF RetryReason(fa, tries)
       THEN /\ pc' = "reason"
            /\ UNCHANGED << verdict, justification, raised >>
       ELSE IF fa = None
       THEN /\ verdict' = Some("REFUTED")
            /\ justification' = EmptyStr
            /\ pc' = "done"
            /\ UNCHANGED raised
       ELSE IF LabelOf(Lower(fa[1].answer)) = "ValueError"
       THEN /\ raised' = "ValueError"
            /\ pc' = "raised"
            /\ UNCHANGED << verdict, justification >>
       ELSE /\ verdict' = Some(LabelOf(Lower(fa[1].answer)))
            /\ justification' = fa[1].response
            /\ pc' = "done"
            /\ UNCHANGED raised

decide_frame == << config, search_results, next_search, num_tries, query, result,
                   model_decision, steps, api_result, n_api, n_sufficient,
                   step_generate, step_mixer, raw_response, proposed, mode, classes,
                   gen_vars, sessions, actor_vars, extract_vars >>

\* Judge.reason, line 94, and Judge.maybe_get_final_answer, lines 110-127:
\* the reason prompt is generated and its answer parsed.
ReasonAttempt ==
    /\ pc = "reason"
    /\ d_tries' = d_tries + 1
    /\ n_main' = n_main + 1
    /\ \E resp \in ReasonResponses :
          IF IsGuardrailHit(resp)
          THEN ReasonReturn(Some([ response |-> resp, answer |-> Refused ]), d_tries + 1)
          ELSE IF AnswerIsValid(resp, BracketAnswer(resp))
          THEN ReasonReturn(Some([ response |-> resp, answer |-> BracketAnswer(resp) ]),
                            d_tries + 1)
          ELSE /\ model_response' = resp
               /\ pc' = "corrective"
               /\ UNCHANGED << final_answer, n_refused, verdict, justification, raised >>
    /\ UNCHANGED << decide_frame, latest_reasoning, n_corrective, adjusted_response >>

\* Judge.maybe_get_final_answer, lines 129-141: the corrective prompt.
Corrective ==
    /\ pc = "corrective"
    /\ n_corrective' = n_corrective + 1
    /\ \E resp \in CorrectiveResponses :
          /\ adjusted_response' = Some(AdjustedAnswer(resp))
          /\ ReasonReturn(Some([ response |-> model_response,
                                 answer |-> AdjustedAnswer(resp) ]), d_tries)
    /\ UNCHANGED << decide_frame, latest_reasoning, d_tries, n_main >>

\* 'Refused', the answer of Reasoner.maybe_get_final_answer on a refusal
RefusedCapital == << "R" >> \o Tail(Refused)

\* valid_labels = [label.value for label in Label]  (reasoner.py, line 63)
LabelValues == [ i \in DOMAIN LabelList |-> LabelValue(LabelList[i]) ]

\* Reasoner.reason, lines 41-46: maybe_get_final_answer has returned fa.
ReasonerReturn(fa, tries) ==
    /\ final_answer' = fa
    /\ n_refused' = IF AttemptRefused(fa) THEN n_refused + 1 ELSE n_refused
    /\ IF RetryReason(fa, tries)
       THEN /\ pc' = "reasoner"
            /\ UNCHANGED << verdict, justification, raised >>
       ELSE IF fa = None
       THEN /\ raised' = "AttributeError"
            /\ pc' = "raised"
            /\ UNCHANGED << verdict, justification >>
       ELSE IF LabelOf(fa[1].answer) = "ValueError"
       THEN /\ raised' = "ValueError"
            /\ pc' = "raised"
            /\ UNCHANGED << verdict, justification >>
       ELSE /\ verdict' = Some(LabelOf(fa[1].answer))
            /\ justification' = fa[1].response
            /\ pc' = "done"
            /\ UNCHANGED raised

\* Reasoner.reason, line 38, and Reasoner.maybe_get_final_answer: the
\* reason prompt is generated and its answer parsed; the corrective branch
\* (line 68) reads the name `labels`, which is bound nowhere.
ReasonerAttempt ==
    /\ pc = "reasoner"
    /\ d_tries' = d_tries + 1
    /\ n_main' = n_main + 1
    /\ \E resp \in ReasonResponses :
          IF StartsWith(resp, ICannot)
          THEN ReasonerReturn(Some([ response |-> resp, answer |-> RefusedCapital ]),
                              d_tries + 1)
          ELSE IF resp # EmptyStr /\ InList(BracketAnswer(resp), LabelValues)
          THEN ReasonerReturn(Some([ response |-> resp, answer |-> BracketAnswer(resp) ]),
                              d_tries + 1)
          ELSE /\ raised' = "NameError"
               /\ pc' = "raised"
               /\ UNCHANGED << final_answer, n_refused, verdict, justification >>
    /\ UNCHANGED << decide_frame, model_response, latest_reasoning, n_corrective,
                    adjusted_response >>

DecideInit ==
    /\ claim \in Claims
    /\ limit_search = TRUE
    /\ summarize = TRUE
    /\ max_steps = MaxSteps
    /\ max_retries \in 0..MaxRetries
    /\ search_results \in Evidences
    /\ next_search = None
    /\ num_tries = 0
    /\ model_response = EmptyStr
    /\ query = EmptyStr
    /\ result = None
    /\ model_decision = EmptyStr
    /\ steps = 0
    /\ api_result = None
    /\ n_api = 0
    /\ n_sufficient = 0
    /\ step_generate = 0
    /\ step_mixer = 0
    /\ raw_response = EmptyStr
    /\ proposed = { }
    /\ mode \in { "judge", "reason", "reasoner" }
    /\ classes \in IF mode = "reasoner" THEN { << >> } ELSE ClassLists
    /\ pc = mode
    /\ d_tries = 0
    /\ final_answer = None
    /\ latest_reasoning = None
    /\ verdict = None
    /\ justification = EmptyStr
    /\ raised = ""
    /\ n_main = 0
    /\ n_corrective = 0
    /\ n_refused = 0
    /\ adjusted_response = None
    /\ GenIdle
    /\ sessions = SessionsIdle
    /\ ActorIdle
    /\ ExtractIdle

DecideNext ==
    \/ JudgeAttempt
    \/ ReasonAttempt
    \/ Corrective
    \/ ReasonerAttempt

SpecDecide == DecideInit /\ [][DecideNext]_vars


(***************************************************************************)
(* Model.generate: one call, for a hosted model (the executor loop) or an  *)
(* open-source one (a single pipeline call).                               *)
(***************************************************************************)

\* the texts a backend answers with
GenTexts == { << "o", "k" >>, EmptyStr }

\* the exceptions of future.result() that generate() catches, but for the
\* timeout
CaughtErrors == { "OpenAIError", "RetryError", "AnthropicError" }

\* futures.TimeoutError: the wait ended, the worker goes on
TimeoutError == "TimeoutError"

\* an exception that generate() does not catch
UncaughtErrors == { "Exception" }

\* GenContinues with one attempt too many
GenContinues_OneMore(resp, n) == ~StrTruthy(Some(resp)) /\ n <= max_attempts

\* while not response and num_attempts < max_attempts
GenContinues(resp, n) == ~StrTruthy(Some(resp)) /\ n < max_attempts

gen_frame == << config, search_results, search_locals, classes, d_tries, final_answer,
                latest_reasoning, verdict, justification, n_main, n_corrective,
                n_refused, adjusted_response, mode, open_source, max_attempts,
                sessions, actor_vars, extract_vars >>

GenInit ==
    /\ claim \in Claims
    /\ limit_search = TRUE
    /\ summarize = TRUE
    /\ max_steps = MaxSteps
    /\ max_retries = MaxRetries
    /\ search_results = << >>
    /\ next_search = None
    /\ num_tries = 0
    /\ model_response = EmptyStr
    /\ query = EmptyStr
    /\ result = None
    /\ model_decision = EmptyStr
    /\ steps = 0
    /\ api_result = None
    /\ n_api = 0
    /\ n_sufficient = 0
    /\ step_generate = 0
    /\ step_mixer = 0
    /\ raw_response = EmptyStr
    /\ proposed = { }
    /\ mode = "generate"
    /\ classes = << >>
    /\ pc = "generate"
    /\ d_tries = 0
    /\ final_answer = None
    /\ latest_reasoning = None
    /\ verdict = None
    /\ justification = EmptyStr
    /\ raised = ""
    /\ n_main = 0
    /\ n_corrective = 0
    /\ n_refused = 0
    /\ adjusted_response = None
    /\ open_source \in BOOLEAN
    /\ max_attempts \in 0..MaxAttempts
    /\ response = EmptyStr
    /\ num_attempts = 0
    /\ worker = "none"
    /\ returned = None
    /\ last_error = ""
    /\ n_submitted = 0
    /\ n_caught = 0
    /\ sessions = SessionsIdle
    /\ ActorIdle
    /\ ExtractIdle

\* lines 267-283: the pipeline of an open-source model is called once; an
\* exception of the pipeline leaves generate().
GenPipeline ==
    /\ pc = "generate"
    /\ open_source
    /\ \/ \E text \in GenTexts :
             /\ response' = text
             /\ pc' = "gen_return"
             /\ UNCHANGED raised
       \/ \E e \in UncaughtErrors :
             /\ raised' = e
             /\ pc' = "raised"
             /\ UNCHANGED response
    /\ UNCHANGED << gen_frame, num_attempts, worker, returned, last_error,
                    n_submitted, n_caught >>

\* lines 286-288: the test of the while loop and executor.submit.
GenSubmit ==
    /\ pc \in { "generate", "gen_while" }
    /\ ~open_source
    /\ IF GenContinues(response, num_attempts)
       THEN /\ worker' = "running"
            /\ n_submitted' = n_submitted + 1
            /\ pc' = "gen_wait"
       ELSE /\ pc' = "gen_return"
            /\ UNCHANGED << worker, n_submitted >>
    /\ UNCHANGED << gen_frame, response, num_attempts, returned, last_error, n_caught,
                    raised >>

\* lines 290-299: future.result(timeout) returns the text, or raises what
\* the worker raised, or raises TimeoutError while the worker still runs.
GenResult ==
    /\ pc = "gen_wait"
    /\ \/ \E text \in GenTexts :
             /\ response' = text
             /\ worker' = "finished"
             /\ last_error' = ""
             /\ pc' = "gen_exit"
             /\ UNCHANGED << n_caught, raised >>
       \/ \E e \in CaughtErrors :
             /\ last_error' = e
             /\ worker' = "finished"
             /\ n_caught' = n_caught + 1
             /\ pc' = "gen_sleep"
             /\ UNCHANGED << response, raised >>
       \/ /\ last_error' = TimeoutError
          /\ n_caught' = n_caught + 1
          /\ pc' = "gen_sleep"
          /\ UNCHANGED << response, worker, raised >>
       \/ \E e \in UncaughtErrors :
             /\ raised' = e
             /\ worker' = "finished"
             /\ pc' = "raised"
             /\ UNCHANGED << response, last_error, n_caught >>
    /\ UNCHANGED << gen_frame, num_attempts, returned, n_submitted >>

\* the worker of an attempt that timed out comes to its end
GenWorkerEnds ==
    /\ pc \in { "gen_sleep", "gen_exit" }
    /\ worker = "running"
    /\ worker' = "finished"
    /\ UNCHANGED << gen_frame, pc, response, num_attempts, returned, last_error,
                    n_submitted, n_caught, raised >>

\* line 299: time.sleep(retry_interval)
GenSleep ==
    /\ pc = "gen_sleep"
    /\ pc' = "gen_exit"
    /\ UNCHANGED << gen_frame, response, num_attempts, worker, returned, last_error,
                    n_submitted, n_caught, raised >>

\* ExecutorExits without the wait for the worker
ExecutorExits_NoWait(w) == TRUE

\* line 287: leaving `with futures.ThreadPoolExecutor()` is shutdown(wait=True),
\* which returns when the worker has finished
ExecutorExits(w) == w # "running"

\* lines 287 and 301: the with block of the executor is left, which waits
\* for the worker, and num_attempts += 1.
GenExit ==
    /\ pc = "gen_exit"
    /\ ExecutorExits(worker)
    /\ worker' = IF worker = "running" THEN "running" ELSE "none"
    /\ num_attempts' = num_attempts + 1
    /\ pc' = "gen_while"
    /\ UNCHANGED << gen_frame, response, returned, last_error, n_submitted, n_caught,
                    raised >>

\* line 310: return response
GenReturn ==
    /\ pc = "gen_return"
    /\ returned' = Some(response)
    /\ pc' = "done"
    /\ UNCHANGED << gen_frame, response, num_attempts, worker, last_error, n_submitted,
                    n_caught, raised >>

GenNext ==
    \/ GenPipeline
    \/ GenSubmit
    \/ GenResult
    \/ GenWorkerEnds
    \/ GenSleep
    \/ GenExit
    \/ GenReturn

SpecGenerate == GenInit /\ [][GenNext]_vars


(***************************************************************************)
(* Concurrent sessions on one Judge: each calls judge() and then reads     *)
(* get_latest_reasoning(); the threads interleave at the model calls.      *)
(***************************************************************************)

\* answers of model.generate to the judge prompts of the sessions
SessionResponses ==
    { Span(LabelValue("SUPPORTED")), Span(LabelValue("REFUTED")), Maybe }

shared_frame == << config, search_results, search_locals, pc, mode, classes, d_tries,
                  final_answer, verdict, justification, raised, n_main, n_corrective,
                  n_refused, adjusted_response, gen_vars, actor_vars, extract_vars >>

SharedInit ==
    /\ claim \in Claims
    /\ limit_search = TRUE
    /\ summarize = TRUE
    /\ max_steps = MaxSteps
    /\ max_retries \in 0..MaxRetries
    /\ search_results = << >>
    /\ next_search = None
    /\ num_tries = 0
    /\ model_response = EmptyStr
    /\ query = EmptyStr
    /\ result = None
    /\ model_decision = EmptyStr
    /\ steps = 0
    /\ api_result = None
    /\ n_api = 0
    /\ n_sufficient = 0
    /\ step_generate = 0
    /\ step_mixer = 0
    /\ raw_response = EmptyStr
    /\ proposed = { }
    /\ mode = "shared"
    /\ classes \in ClassLists
    /\ pc = "shared"
    /\ d_tries = 0
    /\ final_answer = None
    /\ latest_reasoning = None
    /\ verdict = None
    /\ justification = EmptyStr
    /\ raised = ""
    /\ n_main = 0
    /\ n_corrective = 0
    /\ n_refused = 0
    /\ adjusted_response = None
    /\ GenIdle
    /\ sessions = [ s \in Sessions |-> SessionStart("judge") ]
    /\ ActorIdle
    /\ ExtractIdle

\* Judge.judge in session s: one turn of the while loop, a call of
\* _generate_verdict, which writes self.latest_reasoning (line 50).
SessionJudge(s) ==
    /\ sessions[s].pc = "judge"
    /\ \E resp \in SessionResponses :
          LET v == GenerateVerdict(resp, classes)
              n == IF v = "REFUSED_TO_ANSWER"
                   THEN sessions[s].n_retries + 1
                   ELSE sessions[s].n_retries
              goes_on == v = "REFUSED_TO_ANSWER" /\ ~JudgeStops(n)
          IN  /\ latest_reasoning' = Some(resp)
              /\ sessions' = [ sessions EXCEPT ![s] =
                    [ pc |-> IF goes_on THEN "judge" ELSE "read",
                      n_retries |-> n,
                      verdict |-> Some(v),
                      own |-> Some(resp),
                      reported |-> None ] ]
    /\ UNCHANGED shared_frame

\* the caller of session s asks the Judge for the reasoning of its verdict
SessionRead(s) ==
    /\ sessions[s].pc = "read"
    /\ sessions' = [ sessions EXCEPT ![s].pc = "done", ![s].reported = GetLatestReasoning ]
    /\ UNCHANGED << shared_frame, latest_reasoning >>

SharedNext ==
    \E s \in Sessions :
        \/ SessionJudge(s)
        \/ SessionRead(s)

SpecShared == SharedInit /\ [][SharedNext]_vars


(***************************************************************************)
(* Actor.perform: the actions are performed one by one, each by the tool   *)
(* that get_corresponding_tool_for_action finds for it.                    *)
(***************************************************************************)

\* the types of Action
ActionTypes == { "WebSearch", "FaceRecognition", "Geolocate" }

\* the lists of actions perform() may be given
ActionLists == UNION { [ 1..n -> ActionTypes ] : n \in 0..MaxActions }

\* the tool lists an Actor may be constructed with: tool.actions of each tool
ToolLists ==
    { << >>,
      << { "WebSearch" }, { "FaceRecognition" } >>,
      << { "FaceRecognition", "WebSearch" }, { "FaceRecognition", "Geolocate" },
         { "Geolocate" } >> }

\* the positions in tls of the tools that declare the type of the action
MatchingTools(action, tls) == { t \in DOMAIN tls : action \in tls[t] }

\* CorrespondingTool that goes on to the last tool that matches
CorrespondingTool_Last(action, tls) ==
    IF MatchingTools(action, tls) = { }
    THEN 0
    ELSE CHOOSE t \in MatchingTools(action, tls) : \A u \in MatchingTools(action, tls) : u <= t

\* Actor.get_corresponding_tool_for_action: the position of the tool that is
\* returned, 0 when the ValueError is raised
CorrespondingTool(action, tls) ==
    IF MatchingTools(action, tls) = { }
    THEN 0
    ELSE CHOOSE t \in MatchingTools(action, tls) : \A u \in MatchingTools(action, tls) : t <= u

actor_frame == << config, search_results, search_locals, decide_vars_but_raised, gen_vars,
                 sessions, actions, tools, extract_vars >>

ActorInit ==
    /\ claim \in Claims
    /\ limit_search = TRUE
    /\ summarize = TRUE
    /\ max_steps = MaxSteps
    /\ max_retries = MaxRetries
    /\ search_results = << >>
    /\ next_search = None
    /\ num_tries = 0
    /\ model_response = EmptyStr
    /\ query = EmptyStr
    /\ result = None
    /\ model_decision = EmptyStr
    /\ steps = 0
    /\ api_result = None
    /\ n_api = 0
    /\ n_sufficient = 0
    /\ step_generate = 0
    /\ step_mixer = 0
    /\ raw_response = EmptyStr
    /\ proposed = { }
    /\ mode = "actor"
    /\ classes = << >>
    /\ pc = "perform"
    /\ d_tries = 0
    /\ final_answer = None
    /\ latest_reasoning = None
    /\ verdict = None
    /\ justification = EmptyStr
    /\ raised = ""
    /\ n_main = 0
    /\ n_corrective = 0
    /\ n_refused = 0
    /\ adjusted_response = None
    /\ GenIdle
    /\ sessions = SessionsIdle
    /\ actions \in ActionLists
    /\ tools \in ToolLists
    /\ all_evidence = << >>
    /\ next_action = 1
    /\ performed = None
    /\ ExtractIdle

\* lines 20-21 and 24-35: one turn of the for loop; _perform_single finds the
\* tool, which performs the action, and the Evidence is appended, or the
\* ValueError of get_corresponding_tool_for_action leaves perform().
PerformSingle ==
    /\ pc = "perform"
    /\ next_action <= Len(actions)
    /\ LET tool == CorrespondingTool(actions[next_action], tools)
       IN  IF tool = 0
           THEN /\ raised' = "ValueError"
                /\ pc' = "raised"
                /\ UNCHANGED << all_evidence, next_action >>
           ELSE /\ all_evidence' =
                      Append(all_evidence, [ action |-> next_action, tool |-> tool ])
                /\ next_action' = next_action + 1
                /\ UNCHANGED << pc, raised >>
    /\ UNCHANGED << actor_frame, performed >>

\* line 22: return all_evidence
PerformReturn ==
    /\ pc = "perform"
    /\ next_action > Len(actions)
    /\ performed' = Some(all_evidence)
    /\ pc' = "done"
    /\ UNCHANGED << actor_frame, all_evidence, next_action, raised >>

ActorNext ==
    \/ PerformSingle
    \/ PerformReturn

SpecActor == ActorInit /\ [][ActorNext]_vars


(***************************************************************************)
(* The extraction of a label from a response, for any values the           *)
(* enumeration Label may have, applied to a token and then to the value of *)
(* the label it gave.                                                      *)
(***************************************************************************)

\* Label whose values start with a capital letter
CapitalValues ==
    [ l \in Labels |->
        << CASE l = "SUPPORTED" -> "S" [] l = "REFUTED" -> "R"
             [] l = "NOT_ENOUGH_INFO" -> "N" [] l = "REFUSED_TO_ANSWER" -> "R" >>
           \o Tail(LabelValue(l)) ]

\* Label whose value of NOT_ENOUGH_INFO is written with hyphens
HyphenValues ==
    [ l \in Labels |->
        IF l = "NOT_ENOUGH_INFO"
        THEN [ i \in DOMAIN LabelValue(l) |->
                 IF LabelValue(l)[i] = " " THEN "-" ELSE LabelValue(l)[i] ]
        ELSE LabelValue(l) ]

\* the values the enumeration Label may have
LabelTables == { [ l \in Labels |-> LabelValue(l) ], CapitalValues, HyphenValues }

\* re.sub(r'[^\w\s]', '', v).strip().lower(): the normal form of a text
Canonical(v) == Lower(Strip(StripPunct(v)))

\* the tokens a response may hold: the values of the labels, their normal
\* forms, two values at once, no value, nothing
Tokens(values) ==
    { values[l] : l \in Labels } \cup { Canonical(values[l]) : l \in Labels }
        \cup { values["REFUTED"] \o << ",", " " >> \o values["SUPPORTED"], Maybe, EmptyStr }

\* Label(v) for the enumeration with these values
LabelIn(values, v) ==
    IF \E l \in Labels : values[l] = v
    THEN CHOOSE l \in Labels : values[l] = v
    ELSE "ValueError"

\* Judge._extract_verdict, lines 70-80, for the enumeration with these values
VerdictOfAnswerIn(values, answer, cls) ==
    IF LabelIn(values, answer) # "ValueError" THEN LabelIn(values, answer)
    ELSE IF \E i \in DOMAIN cls : Contains(answer, values[cls[i]])
         THEN cls[CHOOSE i \in DOMAIN cls :
                     /\ Contains(answer, values[cls[i]])
                     /\ \A j \in 1..(i - 1) : ~Contains(answer, values[cls[j]])]
         ELSE "REFUSED_TO_ANSWER"

\* ExtractVerdictIn whose normalisation drops the white space as well
ExtractVerdictIn_NoSpaces(values, resp, cls) ==
    LET answer == RemoveChar(Canonical(ExtractLastCodeSpan(resp)), " ")
    IN  IF answer = EmptyStr THEN "REFUSED_TO_ANSWER"
        ELSE VerdictOfAnswerIn(values, answer, cls)

\* Judge._extract_verdict for the enumeration with these values
ExtractVerdictIn(values, resp, cls) ==
    LET answer == Canonical(ExtractLastCodeSpan(resp))
    IN  IF answer = EmptyStr THEN "REFUSED_TO_ANSWER"
        ELSE VerdictOfAnswerIn(values, answer, cls)

\* Judge.maybe_get_final_answer, lines 121-127, and Label(answer.lower()) of
\* reason(), line 101, for the enumeration with these values: the label of
\* the bracketed token, "corrective" when the corrective prompt is next,
\* "ValueError" when Label() raises
ReasonLabelIn(values, resp) ==
    LET answer == BracketAnswer(resp)
        valid_labels == [ i \in DOMAIN LabelList |-> Lower(values[LabelList[i]]) ]
    IN  IF resp # EmptyStr /\ InList(Lower(answer), valid_labels)
        THEN LabelIn(values, Lower(answer))
        ELSE "corrective"

\* the extraction of the mode, applied to a response that holds the text
ExtractFrom(text) ==
    IF mode = "extract_judge"
    THEN ExtractVerdictIn(label_values, Span(text), classes)
    ELSE ReasonLabelIn(label_values, Bracketed(text))

extract_frame == << config, search_results, search_locals, decide_vars, gen_vars,
                   sessions, actor_vars, label_values, token >>

ExtractInit ==
    /\ claim \in Claims
    /\ limit_search = TRUE
    /\ summarize = TRUE
    /\ max_steps = MaxSteps
    /\ max_retries = MaxRetries
    /\ search_results = << >>
    /\ next_search = None
    /\ num_tries = 0
    /\ model_response = EmptyStr
    /\ query = EmptyStr
    /\ result = None
    /\ model_decision = EmptyStr
    /\ steps = 0
    /\ api_result = None
    /\ n_api = 0
    /\ n_sufficient = 0
    /\ step_generate = 0
    /\ step_mixer = 0
    /\ raw_response = EmptyStr
    /\ proposed = { }
    /\ d_tries = 0
    /\ final_answer = None
    /\ latest_reasoning = None
    /\ verdict = None
    /\ justification = EmptyStr
    /\ raised = ""
    /\ n_main = 0
    /\ n_corrective = 0
    /\ n_refused = 0
    /\ adjusted_response = None
    /\ GenIdle
    /\ sessions = SessionsIdle
    /\ ActorIdle
    /\ mode \in { "extract_judge", "extract_reason" }
    /\ pc = "extract"
    /\ classes \in ClassLists
    /\ label_values \in LabelTables
    /\ token \in Tokens(label_values)
    /\ first_label = ""
    /\ second_label = ""

\* the extraction is applied to the token
ExtractFirst ==
    /\ pc = "extract"
    /\ first_label' = ExtractFrom(token)
    /\ pc' = "again"
    /\ UNCHANGED << extract_frame, second_label >>

\* the extraction is applied to the value of the label it gave; a result
\* that is no label has no value and is passed on
ExtractAgain ==
    /\ pc = "again"
    /\ second_label' = IF first_label \in Labels
                       THEN ExtractFrom(label_values[first_label])
                       ELSE first_label
    /\ pc' = "done"
    /\ UNCHANGED << extract_frame, first_label >>

ExtractNext ==
    \/ ExtractFirst
    \/ ExtractAgain

SpecExtract == ExtractInit /\ [][ExtractNext]_vars


(***************************************************************************)
(* Properties of the search session (checked under Spec).                  *)
(***************************************************************************)

\* C1: in every reachable state of a search session, and so in the list
\* search() returns, the store holds at most max_steps entries.
C1_StoreBounded == Len(search_results) <= max_steps

\* a session that returned a store filled up to max_steps
C1_Witness == pc = "done" /\ max_steps >= 2 /\ Len(search_results) = max_steps

\* C6: no two entries of the store have the same query string.
C6_NoDuplicateQueries ==
    \A i, j \in DOMAIN search_results :
        i # j => search_results[i].query # search_results[j].query

\* no two entries of the store carry the same present result
NoTwoSameResults ==
    \A i, j \in DOMAIN search_results :
        (i # j /\ search_results[i].result # None)
            => search_results[i].result # search_results[j].result

\* C7 as claimed: with summarize on or off, no two entries of the store
\* carry the same present result string.
C7_NoDuplicateResults == NoTwoSameResults

\* the backend call of this step returned the result of a stored entry
DuplicateReturned ==
    /\ pc = "api"
    /\ api_result' # None
    /\ InList(api_result'[1], PastResults(search_results))

\* C7 as amended: a step whose backend result equals the result of a stored
\* entry gets an absent result and adds no present result to the store; so
\* with summarize off no two entries carry the same present result.
C7_Amended ==
    /\ [](~summarize => NoTwoSameResults)
    /\ [][DuplicateReturned =>
            /\ next_search' # None
            /\ next_search'[1].result = None
            /\ PastResults(search_results') = PastResults(search_results)]_vars

\* a step has just met a result that is already stored
C7_Witness ==
    /\ pc \in { "loop", "sufficient" }
    /\ next_search # None
    /\ next_search[1].result = None
    /\ api_result # None
    /\ InList(api_result[1], PastResults(search_results))

\* C8: when a step's backend result is discarded as a duplicate (the
\* SearchResult it returns has an absent result), its query is the last
\* entry of the store, with an absent result.
C8_DuplicateKeepsQuery ==
    (pc \in { "loop", "sufficient", "done" } /\ next_search # None
        /\ next_search[1].result = None)
        => /\ search_results # << >>
           /\ search_results[Len(search_results)] = next_search[1]

\* C9 as claimed: after k executed steps the store holds exactly k entries.
C9_OneEntryPerStep == Len(search_results) = steps

\* C9 as amended: every executed step appends at most one entry, its
\* SearchResult when the result is present and not empty and nothing
\* otherwise; a failed step still uses up one of the max_steps steps.
C9_Amended ==
    /\ [](Len(search_results) <= steps /\ steps <= max_steps)
    /\ [][/\ steps' \in { steps, steps + 1 }
          /\ steps' = steps => search_results' = search_results
          /\ steps' = steps + 1 =>
                /\ next_search' # None
                /\ search_results' =
                      IF StrTruthy(next_search'[1].result)
                      THEN Append(search_results, next_search'[1])
                      ELSE search_results]_vars

\* a session with a step that stored its result and a step that failed
C9_Witness == pc = "done" /\ steps >= 2 /\ Len(search_results) = 1

\* C10: with limit_search the sufficiency question is asked once after every
\* step; the session goes on after an answer that is not "sufficient"
\* (ignoring case) and ends after the first that is, or after max_steps.
C10_SufficiencyStops ==
    limit_search =>
        /\ n_sufficient = IF pc = "sufficient" THEN steps - 1 ELSE steps
        /\ (pc = "loop" /\ steps > 0) => Lower(model_decision) # Sufficient
        /\ pc = "done" => (steps = max_steps \/ Lower(model_decision) = Sufficient)
        /\ (pc = "done" /\ steps > 0 /\ Lower(model_decision) # Sufficient)
              => steps = max_steps

\* a session ended by "Sufficient" after its second step, one step early
C10_Witness ==
    /\ limit_search
    /\ pc = "done"
    /\ max_steps = 3
    /\ steps = 2
    /\ n_sufficient = 2
    /\ model_decision = << "S" >> \o Tail(Sufficient)

\* C11: a step whose extracted query was already extracted by an earlier
\* step of the session asks the mixer exactly once before the backend call
\* and uses the answer unchecked; a step whose query is no such repeat does
\* not ask the mixer.
C11_MixerOnRepeat ==
    /\ [][(pc \in { "propose", "extract" } /\ pc' \in { "mixer", "api" })
            => (pc' = "mixer" <=> query' \in proposed)]_vars
    /\ [][pc = "mixer" => (pc' = "api" /\ step_mixer' = 1)]_vars

\* the search prompt was answered with a refusal
ProposalRefused(resp) ==
    \/ StartsWith(RemoveChar(resp, "\""), ICannot)
    \/ StartsWith(RemoveChar(resp, "\""), ImSorry)

\* C18: when the answer to the search prompt begins with "I cannot" or
\* "I'm sorry" the step goes on: the response becomes the claim in square
\* brackets, the query is extracted from that by the model, and the step
\* makes its backend call like every other step.
C18_RefusalStillSearches ==
    /\ [][(pc = "propose" /\ ProposalRefused(raw_response'))
            => /\ model_response' = Bracketed(claim)
               /\ pc' = "extract"
               /\ steps' = steps
               /\ search_results' = search_results]_vars
    /\ [][pc = "extract"
            => /\ pc' \in { "mixer", "api" }
               /\ \E resp \in ExtractionResponses : query' = RemoveChar(resp, "\n")]_vars
    /\ [][(pc \in { "propose", "extract", "mixer" }) => (steps' = steps)]_vars
    /\ [][steps' = steps + 1 => (pc \in { "api", "summarize" } /\ api_result' # None)]_vars
    /\ [](n_api = IF pc = "summarize" THEN steps + 1 ELSE steps)

\* a step whose proposal was refused has made its backend call
C18_Witness ==
    /\ pc = "summarize"
    /\ raw_response = ImSorry
    /\ model_response = Bracketed(claim)
    /\ query \in { Q1, Q2 }
    /\ api_result = Some(OverThreshold)
    /\ n_api = steps + 1

\* C19: the backend result is replaced by a summary exactly when summarize
\* is set, the result is present and longer than 728 characters; a present
\* result of 728 characters or fewer is stored unchanged with no summary
\* call, and an absent result is not summarized.
C19_SummaryThreshold ==
    /\ [][pc = "api" =>
            LET raw == api_result'[1]
                dup == InList(raw, PastResults(search_results))
            IN  /\ step_generate' = step_generate
                /\ pc' = "summarize" <=>
                      (summarize /\ ~dup /\ Len(raw) > SummaryThreshold)
                /\ pc' = "summarize" => result' = Some(raw)
                /\ pc' # "summarize" =>
                      /\ next_search' # None
                      /\ next_search'[1].result = IF dup THEN None ELSE Some(raw)]_vars
    /\ [][pc = "summarize" =>
            /\ step_generate' = step_generate + 1
            /\ next_search' # None
            /\ \E resp \in SummaryResponses : next_search'[1].result = Some(resp)]_vars

\* with summarize set, a result of exactly 728 characters was stored as it is
C19_Witness ==
    /\ summarize
    /\ pc \in { "loop", "sufficient" }
    /\ api_result = Some(AtThreshold)
    /\ search_results # << >>
    /\ search_results[Len(search_results)].result = Some(AtThreshold)
    /\ Len(AtThreshold) = SummaryThreshold

\* C26: without limit_search a session runs max_steps steps, whatever the
\* model answers, and the sufficiency question is never asked.
C26_NoLimitRunsAllSteps ==
    ~limit_search =>
        /\ n_sufficient = 0
        /\ pc # "sufficient"
        /\ model_decision = EmptyStr
        /\ pc = "done" => steps = max_steps

\* a session without limit_search that ran all its steps
C26_Witness ==
    /\ ~limit_search
    /\ pc = "done"
    /\ steps = MaxSteps
    /\ n_sufficient = 0
    /\ Len(search_results) = 1

\* C28: every executed step makes one call of _maybe_get_next_search, so one
\* proposal, and one backend call; a step whose result is empty, absent or
\* a duplicate is not tried again, and the backend calls of a session are
\* as many as its executed steps, at most max_steps.
C28_OneProposalOneCall ==
    /\ num_tries <= 1
    /\ n_api = IF pc = "summarize" THEN steps + 1 ELSE steps
    /\ n_api <= max_steps
    /\ (pc = "sufficient" \/ (pc \in { "loop", "done" } /\ steps > 0)) => num_tries = 1
    /\ pc \in { "extract", "mixer", "api", "summarize" } => (num_tries = 0 /\ step_generate >= 1)

\* a step with an empty result that was not tried again though retries remain
C28_Witness ==
    /\ pc = "loop"
    /\ max_retries = MaxRetries
    /\ next_search # None
    /\ next_search[1].result = Some(EmptyStr)
    /\ num_tries = 1
    /\ steps = 2
    /\ n_api = 2

\* C29: every entry of the store has a present result that is not empty; a
\* step whose result is absent or empty leaves the store as it was.
C29_StoredResultsPresent ==
    /\ [](\A i \in DOMAIN search_results : StrTruthy(search_results[i].result))
    /\ [][(steps' = steps + 1 /\ ~StrTruthy(next_search'[1].result))
            => search_results' = search_results]_vars

\* a step whose summary was empty left a store with one entry as it was
C29_Witness ==
    /\ pc \in { "loop", "sufficient" }
    /\ next_search # None
    /\ next_search[1].result = Some(EmptyStr)
    /\ api_result = Some(OverThreshold)
    /\ Len(search_results) = 1
    /\ steps = 2

(***************************************************************************)
(* Properties of the decision (checked under SpecDecide).                  *)
(***************************************************************************)

\* C2: in every mode the decision returns a member of Label and raises no
\* exception.
C2_DecideReturnsLabel ==
    /\ raised = ""
    /\ pc # "raised"
    /\ pc = "done" => (verdict # None /\ verdict[1] \in Labels)

\* C3: judge() makes 1 + max_retries generations when every one of them is
\* refused and returns REFUSED_TO_ANSWER; it returns the first verdict that
\* is not refused, after as many generations as it took to get it.
C3_JudgeRetryCount ==
    mode = "judge" =>
        /\ pc = "judge" => (n_refused = n_main /\ n_main <= max_retries)
        /\ pc = "done" =>
              /\ verdict # None
              /\ latest_reasoning # None
              /\ verdict[1] = GenerateVerdict(latest_reasoning[1], classes)
              /\ IF verdict[1] = "REFUSED_TO_ANSWER"
                 THEN n_refused = n_main /\ n_main = 1 + max_retries
                 ELSE n_refused = n_main - 1 /\ n_main <= 1 + max_retries

\* three refused generations under max_retries = 2
C3_Witness ==
    /\ mode = "judge"
    /\ pc = "done"
    /\ max_retries = 2
    /\ verdict = Some("REFUSED_TO_ANSWER")
    /\ n_main = 3

\* C4: reason() returns after a failed attempt (guardrail hit, or a parse
\* failure the corrective prompt did not mend) only when 1 + max_retries
\* generations of the reason prompt have been made.
C4_ReasonRetries ==
    (mode = "reason" /\ pc \in { "done", "raised" } /\ AttemptRefused(final_answer))
        => n_main = 1 + max_retries

\* C5: in both modes REFUSED_TO_ANSWER is returned only after
\* 1 + max_retries attempts, every one of them failed.
C5_RefusedOnlyOnExhaustion ==
    (mode \in { "judge", "reason" } /\ pc = "done" /\ verdict = Some("REFUSED_TO_ANSWER"))
        => (n_main = 1 + max_retries /\ n_refused = n_main)

\* the response a finished attempt of reason() has parsed was no guardrail hit
ReasonParsed ==
    /\ mode = "reason"
    /\ pc \in { "done", "raised" }
    /\ final_answer # None
    /\ ~IsGuardrailHit(final_answer[1].response)

\* the last response of judge() was no guardrail hit
JudgeParsed ==
    /\ mode = "judge"
    /\ latest_reasoning # None
    /\ ~IsGuardrailHit(latest_reasoning[1])

\* the label whose value is v, REFUSED_TO_ANSWER when there is none
LabelOrRefused(v) ==
    IF \E l \in Labels : LabelValue(l) = v
    THEN CHOOSE l \in Labels : LabelValue(l) = v
    ELSE "REFUSED_TO_ANSWER"

\* C12: in judge mode and in reason mode an attempt whose response is a
\* guardrail hit is refused at once: whatever the response holds besides,
\* the attempt makes no other model call, and no corrective prompt follows.
C12_GuardrailShortCircuit ==
    /\ [](mode = "judge" =>
            /\ n_corrective = 0
            /\ (latest_reasoning # None /\ IsGuardrailHit(latest_reasoning[1]))
                  => verdict = Some("REFUSED_TO_ANSWER"))
    /\ [](pc = "corrective" => ~IsGuardrailHit(model_response))
    /\ [][pc = "judge" => (n_main' = n_main + 1 /\ n_corrective' = n_corrective)]_vars
    /\ [][(pc = "reason" /\ final_answer' # None
              /\ IsGuardrailHit(final_answer'[1].response))
            => /\ n_main' = n_main + 1
               /\ n_corrective' = n_corrective
               /\ adjusted_response' = None
               /\ LabelOf(Lower(final_answer'[1].answer)) = "REFUSED_TO_ANSWER"
               /\ pc' # "corrective"]_vars

\* a guardrail hit that carries a label in a code span, refused by judge()
C12_Witness ==
    /\ mode = "judge"
    /\ latest_reasoning = Some(ICannot \o << ":", " " >> \o Span(LabelValue("SUPPORTED")))
    /\ verdict = Some("REFUSED_TO_ANSWER")
    /\ n_main = 1
    /\ n_corrective = 0

\* C13: in reason mode a response that is no guardrail hit and whose first
\* bracketed token, with punctuation stripped, trimmed and lower-cased, is
\* the value of a label L makes reason() return L with that response after
\* one generation and no corrective prompt.
C13_BracketedLabelReturned ==
    \A l \in Labels :
        /\ (mode = "reason" /\ pc = "corrective")
              => Lower(BracketAnswer(model_response)) # LabelValue(l)
        /\ (ReasonParsed /\ Lower(BracketAnswer(final_answer[1].response)) = LabelValue(l))
              => /\ pc = "done"
                 /\ verdict = Some(l)
                 /\ justification = final_answer[1].response
                 /\ n_main = 1
                 /\ n_corrective = 0

\* "[Not enough information!]" returned as NOT_ENOUGH_INFO
C13_Witness ==
    /\ mode = "reason"
    /\ pc = "done"
    /\ justification =
          Bracketed(<< "N" >> \o Tail(LabelValue("NOT_ENOUGH_INFO")) \o << "!" >>)
    /\ verdict = Some("NOT_ENOUGH_INFO")
    /\ n_main = 1
    /\ n_corrective = 0

\* the token of a judge response is no label value and holds none
NoLabelInToken(resp, cls) ==
    /\ JudgeToken(resp) # EmptyStr
    /\ LabelOf(JudgeToken(resp)) = "ValueError"
    /\ \A i \in DOMAIN cls : ~Contains(JudgeToken(resp), LabelValue(cls[i]))

\* C14 as claimed: in either mode an extraction that finds no label by
\* lookup or by substring issues exactly one corrective prompt, whose
\* normalized answer gives the label, or REFUSED_TO_ANSWER.
C14_CorrectiveInBothModes ==
    /\ (JudgeParsed /\ NoLabelInToken(latest_reasoning[1], classes))
          => n_corrective = n_main
    /\ (ReasonParsed /\ ~InList(Lower(BracketAnswer(final_answer[1].response)), ValidLabels))
          => (n_corrective = 1 /\ adjusted_response # None)

\* C14 as amended: judge() never issues a corrective prompt, a token without
\* a label is REFUSED_TO_ANSWER there; reason() tries no substring match and
\* issues exactly one corrective prompt when the token is no label value,
\* and returns the label whose value is the lower-cased corrective answer
\* (nothing stripped), or REFUSED_TO_ANSWER when it is none.
C14_Amended ==
    /\ mode = "judge" =>
          /\ n_corrective = 0
          /\ (JudgeParsed /\ NoLabelInToken(latest_reasoning[1], classes))
                => verdict = Some("REFUSED_TO_ANSWER")
    /\ mode = "reason" =>
          /\ n_corrective = IF adjusted_response = None THEN 0 ELSE 1
          /\ adjusted_response # None =>
                /\ InList(adjusted_response[1], ValidLabels)
                /\ final_answer = Some([ response |-> justification,
                                         answer |-> adjusted_response[1] ])
          /\ pc = "corrective" =>
                /\ n_corrective = 0
                /\ ~IsGuardrailHit(model_response)
                /\ ~InList(Lower(BracketAnswer(model_response)), ValidLabels)
          /\ (ReasonParsed
                /\ ~InList(Lower(BracketAnswer(final_answer[1].response)), ValidLabels))
                => /\ adjusted_response # None
                   /\ pc = "done"
                   /\ verdict = Some(LabelOrRefused(adjusted_response[1]))
                   /\ justification = final_answer[1].response

\* "Supported", answered to the corrective prompt, mends the answer "maybe"
C14_Witness ==
    /\ mode = "reason"
    /\ pc = "done"
    /\ justification = Maybe
    /\ n_corrective = 1
    /\ adjusted_response = Some(LabelValue("SUPPORTED"))
    /\ verdict = Some("SUPPORTED")

\* C15 as claimed: in either mode an empty token is REFUSED_TO_ANSWER at
\* once, with no corrective model call.
C15_EmptyTokenRefusesAtOnce ==
    /\ (JudgeParsed /\ JudgeToken(latest_reasoning[1]) = EmptyStr)
          => (verdict = Some("REFUSED_TO_ANSWER") /\ n_corrective = 0)
    /\ (mode = "reason" /\ pc = "corrective") => BracketAnswer(model_response) # EmptyStr
    /\ (ReasonParsed /\ BracketAnswer(final_answer[1].response) = EmptyStr)
          => (verdict = Some("REFUSED_TO_ANSWER") /\ n_corrective = 0)

\* C15 as amended: in judge mode an empty token is REFUSED_TO_ANSWER at once,
\* with no other model call; in reason mode an empty token is handled as any
\* other token that is no label: one corrective prompt is issued and its
\* answer decides.
C15_Amended ==
    /\ (JudgeParsed /\ JudgeToken(latest_reasoning[1]) = EmptyStr)
          => (verdict = Some("REFUSED_TO_ANSWER") /\ n_corrective = 0)
    /\ [][pc = "judge" => (n_main' = n_main + 1 /\ n_corrective' = n_corrective)]_vars
    /\ [][(pc = "reason" /\ pc' # "corrective"
              /\ ~IsGuardrailHit(final_answer'[1].response))
            => BracketAnswer(final_answer'[1].response) # EmptyStr]_vars
    /\ [](ReasonParsed /\ BracketAnswer(final_answer[1].response) = EmptyStr
            => /\ n_corrective = 1
               /\ adjusted_response # None
               /\ pc = "done"
               /\ verdict = Some(LabelOrRefused(adjusted_response[1])))

\* a response without brackets whose corrective answer was a label
C15_Witness ==
    /\ mode = "reason"
    /\ pc = "done"
    /\ final_answer # None
    /\ BracketAnswer(final_answer[1].response) = EmptyStr
    /\ final_answer[1].response # EmptyStr
    /\ n_main = 1
    /\ n_corrective = 1
    /\ verdict = Some("SUPPORTED")

\* C16: in judge mode a non-empty token that is no label value gets the
\* first class, in the order of Judge.classes, whose value occurs in it,
\* and REFUSED_TO_ANSWER when no class value occurs in it.
C16_FirstCandidateWins ==
    (JudgeParsed /\ JudgeToken(latest_reasoning[1]) # EmptyStr
        /\ LabelOf(JudgeToken(latest_reasoning[1])) = "ValueError")
        => LET hits == { i \in DOMAIN classes :
                           Contains(JudgeToken(latest_reasoning[1]), LabelValue(classes[i])) }
           IN  verdict = Some(IF hits = { }
                              THEN "REFUSED_TO_ANSWER"
                              ELSE classes[CHOOSE i \in hits : \A j \in hits : i <= j])

\* "refuted, supported" is REFUTED for a Judge whose classes begin with REFUTED
C16_Witness ==
    /\ mode = "judge"
    /\ pc = "done"
    /\ classes = << "REFUTED", "SUPPORTED" >>
    /\ latest_reasoning =
          Some(Span(LabelValue("REFUTED") \o << ",", " " >> \o LabelValue("SUPPORTED")))
    /\ verdict = Some("REFUTED")

\* C25 as claimed: when the retries are used up, REFUSED_TO_ANSWER comes with
\* the empty text in judge mode and with the raw response of the last main
\* generation in reason mode.
C25_JustificationOnExhaustion ==
    /\ (mode = "judge" /\ pc = "done" /\ verdict = Some("REFUSED_TO_ANSWER"))
          => GetLatestReasoning = Some(EmptyStr)
    /\ (mode = "reason" /\ pc = "done" /\ verdict = Some("REFUSED_TO_ANSWER"))
          => (final_answer # None /\ justification = final_answer[1].response)

\* C25 as amended: judge() returns the label alone, and the text the Judge
\* reports for a REFUSED_TO_ANSWER is the raw response of its last
\* generation; reason() returns REFUSED_TO_ANSWER with the raw response of
\* its main generation, never with the answer to the corrective prompt.
C25_Amended ==
    /\ [][pc = "judge" =>
            /\ GetLatestReasoning' # None
            /\ GetLatestReasoning'[1] \in VerdictResponses
            /\ verdict' = Some(GenerateVerdict(GetLatestReasoning'[1], classes))
            /\ justification' = justification]_vars
    /\ []((mode = "judge" /\ pc = "done" /\ verdict = Some("REFUSED_TO_ANSWER"))
            => /\ GetLatestReasoning # None
               /\ GenerateVerdict(GetLatestReasoning[1], classes) = "REFUSED_TO_ANSWER")
    /\ [][pc = "reason" =>
            \/ pc' = "corrective" /\ model_response' \in ReasonResponses
            \/ /\ final_answer' # None
               /\ final_answer'[1].response \in ReasonResponses
               /\ justification' = final_answer'[1].response]_vars
    /\ [][pc = "corrective" =>
            /\ final_answer' # None
            /\ final_answer'[1].response = model_response
            /\ justification' = model_response]_vars

\* judge() used up its retries on "maybe", which is what the Judge reports
C25_Witness ==
    /\ mode = "judge"
    /\ pc = "done"
    /\ max_retries = 1
    /\ n_main = 2
    /\ verdict = Some("REFUSED_TO_ANSWER")
    /\ GetLatestReasoning = Some(Maybe)

\* C30: every label judge() and reason() return is one of Judge.classes or
\* REFUSED_TO_ANSWER.
C30_LabelInClasses ==
    (mode \in { "judge", "reason" } /\ pc = "done" /\ verdict # None)
        => (verdict[1] = "REFUSED_TO_ANSWER" \/ verdict[1] \in Range(classes))

(***************************************************************************)
(* Termination of Searcher.search, Judge.judge and Judge.reason, when      *)
(* every call of the model and of the backend returns.                     *)
(***************************************************************************)
TerminatesInit == SearchInit \/ (DecideInit /\ mode \in { "judge", "reason" })

TerminatesNext ==
    \/ Next
    \/ JudgeAttempt
    \/ ReasonAttempt
    \/ Corrective

\* every call returns: a step that can be taken is taken
SpecTerminates ==
    TerminatesInit /\ [][TerminatesNext]_vars /\ WF_vars(TerminatesNext)

\* C17: a search session ends after at most max_steps steps and returns its
\* store; judge() and reason() end after at most 1 + max_retries attempts
\* and return a label; whatever the model and the backend answer.
C17_Terminates ==
    /\ [](mode = "search" => steps <= max_steps)
    /\ [](mode \in { "judge", "reason" } => (d_tries <= 1 + max_retries
                                               /\ n_main <= 1 + max_retries))
    /\ [](pc # "raised" /\ raised = "")
    /\ <>(/\ pc = "done"
          /\ mode = "search" => Len(search_results) <= steps
          /\ mode \in { "judge", "reason" } => (verdict # None /\ verdict[1] \in Labels))

\* a session that ended after max_steps steps of duplicates and empty results
C17_Witness ==
    /\ mode = "search"
    /\ pc = "done"
    /\ max_steps = MaxSteps
    /\ steps = max_steps
    /\ search_results = << >>

\* C23: a step of a search session leaves the store as it is or appends one
\* entry at its end, so the stored entries keep content and position and
\* the length never decreases; judge() and reason() leave the evidence they
\* are given unchanged.
C23_StoreAppendOnly ==
    /\ [][mode = "search" =>
            \/ search_results' = search_results
            \/ /\ Len(search_results') = Len(search_results) + 1
               /\ SubSeq(search_results', 1, Len(search_results)) = search_results
               /\ next_search' = Some(search_results'[Len(search_results')])]_vars
    /\ [][(mode \in { "judge", "reason" }) => (search_results' = search_results)]_vars

\* a session that stored the results of three steps in the order it found them
C23_Witness ==
    /\ mode = "search"
    /\ pc = "done"
    /\ Len(search_results) = 3
    /\ search_results[1].query = Q1
    /\ search_results[2].query = Q2
    /\ search_results[3].query = Q3

\* C31: the calls of model.generate are bounded per unit of work.  A search
\* step issues at most 5 (proposal, extraction, mixer, summary, sufficiency
\* check): the count of the step rises one call at a time, never above 5,
\* and starts again only at the head of the for loop; a step runs
\* _maybe_get_next_search once and is one of at most max_steps, so a session
\* issues at most 5 * max_steps.  judge() issues at most 1 + max_retries and
\* no corrective prompt; an attempt of reason() issues at most 2, the main
\* generation and the corrective prompt.
C31_GenerationsBounded ==
    /\ [](mode = "search" =>
            /\ step_generate <= 5
            /\ steps <= max_steps
            /\ pc \in { "propose", "extract", "mixer", "api", "summarize" }
                  => (steps < max_steps /\ num_tries = 0)
            /\ pc = "propose" => step_generate = 0
            /\ pc \in { "extract", "api", "mixer", "summarize" } => step_generate <= 3
            /\ pc = "sufficient" => (step_generate <= 4 /\ steps >= 1)
            /\ n_main = 0 /\ n_corrective = 0)
    /\ [][(mode = "search") =>
            /\ step_generate' # step_generate =>
                  \/ step_generate' = step_generate + 1
                  \/ step_generate' = 0 /\ pc = "loop" /\ pc' = "propose"
            /\ steps' # steps =>
                  (steps' = steps + 1 /\ pc' \in { "sufficient", "loop" })
            /\ (pc = "loop" /\ pc' = "propose") => (step_generate' = 0 /\ steps' = steps)]_vars
    /\ [](mode = "judge" => (n_main <= 1 + max_retries /\ n_corrective = 0))
    /\ [](mode = "reason" =>
            /\ n_main <= d_tries
            /\ n_corrective <= n_main
            /\ n_main + n_corrective <= 2 * d_tries)

\* the last of max_steps steps issued all five calls
C31_Witness ==
    /\ mode = "search"
    /\ pc \in { "loop", "done" }
    /\ step_generate = 5
    /\ step_mixer = 1
    /\ steps = max_steps
    /\ max_steps = MaxSteps

(***************************************************************************)
(* Properties of Model.generate (checked under SpecGenerate).              *)
(***************************************************************************)

\* C20: when every attempt of a hosted model's generate() ends in a network,
\* authentication or timeout error until the attempts are used up, generate()
\* raises; it does not return a response.
C20_ExhaustionIsFatal ==
    (mode = "generate" /\ ~open_source /\ max_attempts > 0
        /\ n_caught = max_attempts /\ pc \in { "gen_return", "done", "raised" })
        => (pc = "raised" /\ raised # "" /\ returned = None)

\* C21: a generation request is started only when no earlier one is in
\* flight: generate() submits an attempt, also the one after a timeout, only
\* when the worker of the attempt before has finished, and makes one
\* submission at a time.
C21_OneGenerationInFlight ==
    /\ [][n_submitted' # n_submitted
            => (n_submitted' = n_submitted + 1 /\ worker # "running" /\ worker' = "running")]_vars
    /\ [](pc \in { "generate", "gen_while", "gen_return", "done" } => worker # "running")
    /\ [](worker = "running" => (~open_source /\ n_submitted = num_attempts + 1))

\* the attempt after a timeout is in flight, the worker before it has ended
C21_Witness ==
    /\ mode = "generate"
    /\ pc = "gen_wait"
    /\ worker = "running"
    /\ last_error = TimeoutError
    /\ n_submitted = 2
    /\ num_attempts = 1

\* C27: for a hosted model with max_attempts >= 1, generate() makes between
\* one and max_attempts attempts, makes no attempt after one that returned a
\* text that is not empty and returns that text; an attempt that raised a
\* caught error or timed out leaves the response empty and is followed by
\* another attempt while num_attempts < max_attempts.
C27_AttemptsBounded ==
    /\ []((mode = "generate" /\ ~open_source /\ max_attempts >= 1) =>
            /\ n_submitted <= max_attempts
            /\ n_caught <= n_submitted
            /\ pc \in { "gen_return", "done" } =>
                  /\ n_submitted >= 1
                  /\ n_submitted = num_attempts
                  /\ response # EmptyStr \/ n_submitted = max_attempts
            /\ pc = "done" => (returned = Some(response) /\ raised = "")
            /\ pc = "gen_sleep" => (response = EmptyStr /\ last_error # ""))
    /\ [][response # EmptyStr => (n_submitted' = n_submitted /\ response' = response)]_vars
    /\ [][(pc = "gen_while" /\ ~open_source /\ response = EmptyStr
              /\ num_attempts < max_attempts)
            => n_submitted' = n_submitted + 1]_vars

\* two attempts failed, the third returned the text that generate() returns
C27_Witness ==
    /\ mode = "generate"
    /\ ~open_source
    /\ pc = "done"
    /\ n_caught = 2
    /\ n_submitted = 3
    /\ returned = Some(<< "o", "k" >>)

(***************************************************************************)
(* Properties of sessions on a shared Judge (checked under SpecShared).    *)
(***************************************************************************)

\* C22: in every interleaving of sessions that share a Judge, the reasoning
\* the Judge reports to a session is the response of that session's own
\* last generation, as when the session runs alone; no step of another
\* session changes it.
C22_SessionsIsolated ==
    \A s \in Sessions :
        sessions[s].pc = "done" => sessions[s].reported = sessions[s].own

(***************************************************************************)
(* Properties of Actor.perform (checked under SpecActor).                  *)
(***************************************************************************)

\* C32: perform() handles the actions one after another in list order and
\* returns one Evidence per action in that order; each action is handled by
\* the first tool of Actor.tools that declares its type; when no tool does,
\* a ValueError leaves perform() and no list is returned.
C32_ActorPerform ==
    /\ [](mode = "actor" =>
            /\ Len(all_evidence) = next_action - 1
            /\ \A k \in DOMAIN all_evidence :
                  /\ all_evidence[k].action = k
                  /\ all_evidence[k].tool \in MatchingTools(actions[k], tools)
                  /\ \A t \in MatchingTools(actions[k], tools) : all_evidence[k].tool <= t
            /\ pc = "done" =>
                  /\ performed = Some(all_evidence)
                  /\ Len(all_evidence) = Len(actions)
                  /\ raised = ""
            /\ pc = "raised" =>
                  /\ raised = "ValueError"
                  /\ performed = None
                  /\ MatchingTools(actions[next_action], tools) = { }
            /\ (\E k \in DOMAIN actions : MatchingTools(actions[k], tools) = { })
                  => pc # "done")
    /\ [][mode = "actor" =>
            \/ all_evidence' = all_evidence
            \/ /\ Len(all_evidence') = Len(all_evidence) + 1
               /\ SubSeq(all_evidence', 1, Len(all_evidence)) = all_evidence]_vars

\* three actions performed in order, two of them by the first of two tools
\* that declare their type
C32_Witness ==
    /\ mode = "actor"
    /\ pc = "done"
    /\ actions = << "FaceRecognition", "Geolocate", "WebSearch" >>
    /\ Len(tools) = 3
    /\ performed = Some(<< [ action |-> 1, tool |-> 1 ], [ action |-> 2, tool |-> 2 ],
                           [ action |-> 3, tool |-> 1 ] >>)

(***************************************************************************)
(* Properties of the extraction (checked under SpecExtract).               *)
(***************************************************************************)

\* C24: extraction is idempotent on canonical input, whatever values the
\* labels have.  The normal form of a text is its own normal form; for
\* every label L whose value is in normal form, a token equal to that
\* value yields L, in the code span of judge() and in the brackets of
\* reason(); and extracting again from the value of a label that was
\* returned, when that value is in normal form, yields the same label.
\* With the values of LabelValue the extraction is that of ExtractVerdict.
C24_ExtractionIdempotent ==
    mode \in { "extract_judge", "extract_reason" } =>
        /\ Canonical(Canonical(token)) = Canonical(token)
        /\ \A l \in Labels :
              /\ Canonical(Canonical(label_values[l])) = Canonical(label_values[l])
              /\ (pc # "extract" /\ token = label_values[l] /\ Canonical(token) = token)
                    => first_label = l
        /\ (pc = "done" /\ first_label \in Labels
              /\ Canonical(label_values[first_label]) = label_values[first_label])
              => second_label = first_label
        /\ (pc # "extract" /\ mode = "extract_judge"
              /\ label_values = [ l \in Labels |-> LabelValue(l) ])
              => first_label = ExtractVerdict(Span(token), classes)

\* the value of NOT_ENOUGH_INFO, three words in normal form, gave that
\* label, and extracting again from the value of the label gave it again
C24_Witness ==
    /\ mode = "extract_judge"
    /\ pc = "done"
    /\ token = label_values["NOT_ENOUGH_INFO"]
    /\ Canonical(token) = token
    /\ Contains(token, << " " >>)
    /\ first_label = "NOT_ENOUGH_INFO"
    /\ second_label = "NOT_ENOUGH_INFO"

=============================================================================
